---- MODULE Spec2Model ----
(***************************************************************************)
(* Keysight 3000 protocol driver (src/hardware/keysight-3000/protocol.c):  *)
(* the receive handler keysight_receive, the block header decoder          *)
(* keysight_read_header, parse_int, keysight_channel_start and             *)
(* keysight_capture_start, run against a SCPI transport that delivers the  *)
(* instrument's bytes in arbitrary pieces and may fail at any operation.   *)
(*                                                                         *)
(* Bytes are their ASCII codes.  A byte stream is a sequence of runs       *)
(* [b |-> byte, n |-> count], so that a 70000 byte payload is one element. *)
(* uint64_t fields hold an integer v standing for v mod 2^64 (a negative   *)
(* v is the wrapped value 2^64 + v); U64Less compares them as the C code   *)
(* does.                                                                   *)
(***************************************************************************)
EXTENDS Integers, Sequences, FiniteSets, TLC

VARIABLES
    devc,   \* struct dev_context: the fields the protocol code reads and writes
    wire,   \* bytes of the instrument's response not yet read by the driver
    out,    \* packets handed to the session since the last frame begin
            \* (that packet included), oldest first
    begun,  \* history: number of frame begin packets handed to the session
    ended,  \* history: number of frame end packets handed to the session
    closed, \* the frame the last invocation closed: its packets and the
            \* channels whose data was requested in it (empty: it closed none)
    ops,    \* the last invocation of the handler: the readiness flags it was
            \* given, then its transport calls and decisions
    xfer,   \* history: positions of the channels whose data was requested
            \* since the last frame begin
    err,    \* history: a transport operation failed or the capture was aborted
    faults, \* history: number of transport operations that failed
    stalls, \* history: number of reads that found no byte arrived yet
    started \* the acquisition was started (the session's entry point ran)

vars == <<devc, wire, out, begun, ended, closed, ops, xfer, err, faults, stalls, started>>

---------------------------------------------------------------------------
(* Program constants *)

ACQ_BUFFER_SIZE == 64 * 1024

SR_OK == 0
SR_ERR == -1
INT_MAX == 2147483647
G_IO_IN == 1
G_IO_ERR == 8

Hash == 35
Zero == 48
Nine == 57
LineFeed == 10
NUL == 0

(* Bounds of the model *)

\* The handler is not invoked any more once this many frames were closed,
MaxFrames == 2
\* nor once this many packets were emitted in a frame.
MaxOut == 6
\* The transport fails at most this many times in a run.
MaxFaults == 1
\* A read finds no byte arrived yet at most this many times in a run.
MaxStalls == 1
\* Payload length of the short blocks the instrument sends.
ShortLen == 2
\* Payload length of the long block: more than one acquisition buffer.
LongLen == 70000

---------------------------------------------------------------------------
(* The C library as the code uses it *)

\* F of the value v, with v computed once however often F uses it.
With(v, F(_)) == CHOOSE r \in {F(x) : x \in {v}} : TRUE

isdigit(c) == c \in Zero..Nine

isspace(c) == c \in (9..13) \cup {32}

Min(a, b) == IF a < b THEN a ELSE b

\* The C string at str: the bytes before the first NUL.
CStr(str) ==
    IF \E i \in 1..Len(str) : str[i] = NUL
    THEN SubSeq(str, 1, (CHOOSE i \in 1..Len(str) :
                            str[i] = NUL /\ \A j \in 1..(i - 1) : str[j] # NUL) - 1)
    ELSE str

\* The first index from i on whose byte is not in S (Len(s) + 1 if none).
SkipBytes(s, i, S) ==
    CHOOSE j \in i..(Len(s) + 1) :
        /\ (j = Len(s) + 1 \/ s[j] \notin S)
        /\ \A k \in i..(j - 1) : s[k] \in S

RECURSIVE DecimalValue(_)
\* The value of a sequence of at most nine decimal digits.
DecimalValue(ds) ==
    IF ds = <<>> THEN 0
    ELSE 10 * DecimalValue(SubSeq(ds, 1, Len(ds) - 1)) + (ds[Len(ds)] - Zero)

\* strtol(str, &e, 10) on a string of at most nine bytes: white space, an
\* optional sign, decimal digits.  e is the index of the first byte not
\* converted (1 when no digit was found: e == str).
strtol(str) ==
    With(CStr(str), LAMBDA s :
    With(SkipBytes(s, 1, {c \in 0..255 : isspace(c)}), LAMBDA i :
    LET signed == i <= Len(s) /\ s[i] \in {43, 45}
        d == IF signed THEN i + 1 ELSE i
    IN  With(SkipBytes(s, d, Zero..Nine), LAMBDA e :
        LET mag == DecimalValue(SubSeq(s, d, e - 1))
        IN  IF e = d
            THEN [val |-> 0, e |-> 1, s |-> s]
            ELSE [val |-> IF signed /\ s[i] = 45 THEN 0 - mag ELSE mag,
                  e |-> e, s |-> s])))

\* parse_int: SR_OK and the value, or SR_ERR.
parse_int(str) ==
    With(strtol(str), LAMBDA t :
        IF t.e = 1 \/ t.e <= Len(t.s)
        THEN [ret |-> SR_ERR, val |-> 0]
        ELSE IF t.val > INT_MAX \/ t.val < (0 - INT_MAX) - 1
        THEN [ret |-> SR_ERR, val |-> 0]
        ELSE [ret |-> SR_OK, val |-> t.val])

\* a < b for two uint64_t values.
U64Less(a, b) ==
    IF (a < 0) = (b < 0) THEN a < b ELSE b < 0

---------------------------------------------------------------------------
(* The transport: the byte stream of the instrument's response *)

RECURSIVE Avail(_)
\* Number of bytes in a stream.
Avail(w) == IF w = <<>> THEN 0 ELSE Head(w).n + Avail(Tail(w))

RECURSIVE Take(_, _)
\* The first k bytes of a stream.
Take(w, k) ==
    IF k <= 0 \/ w = <<>> THEN <<>>
    ELSE IF Head(w).n <= k THEN <<Head(w)>> \o Take(Tail(w), k - Head(w).n)
    ELSE <<[b |-> Head(w).b, n |-> k]>>

RECURSIVE Drop(_, _)
\* A stream without its first k bytes.
Drop(w, k) ==
    IF k <= 0 \/ w = <<>> THEN w
    ELSE IF Head(w).n <= k THEN Drop(Tail(w), k - Head(w).n)
    ELSE <<[b |-> Head(w).b, n |-> Head(w).n - k]>> \o Tail(w)

RECURSIVE Bytes(_)
\* A (short) stream written out byte by byte.
Bytes(w) ==
    IF w = <<>> THEN <<>>
    ELSE IF Head(w).n = 1 THEN <<Head(w).b>> \o Bytes(Tail(w))
    ELSE <<Head(w).b>> \o Bytes(<<[b |-> Head(w).b, n |-> Head(w).n - 1]>> \o Tail(w))

\* A sequence of bytes as a stream.
Stream(bs) == [i \in 1..Len(bs) |-> [b |-> bs[i], n |-> 1]]

\* What sr_scpi_read_data(scpi, buf, req) can return with `w` still to come:
\* SR_ERR, or the number of bytes that had arrived, at most req.  The sizes
\* tried are none, one byte, all but one, and all that was asked for.  A
\* negative req is outside the transport's contract: it fails, reads nothing,
\* or takes req for a large unsigned count.
ReadRets(req, w, canFail, canStall) ==
    LET m == IF req < 0 THEN Avail(w) ELSE Min(req, Avail(w))
    IN  (IF canFail THEN {SR_ERR} ELSE {})
        \cup (IF canStall \/ m = 0 THEN {0} ELSE {})
        \cup {k \in {1, m - 1, m} : k >= 1 /\ k <= m}

---------------------------------------------------------------------------
(* The instrument *)

RECURSIVE Digits(_, _)
\* n written with d decimal digits.
Digits(d, n) ==
    IF d = 0 THEN <<>> ELSE Digits(d - 1, n \div 10) \o <<Zero + (n % 10)>>

\* The payload bytes of a block: raw samples, none a line feed, the last
\* one unlike those before it.
Payload(len) ==
    IF len = 0 THEN <<>>
    ELSE IF len = 1 THEN <<[b |-> 200, n |-> 1]>>
    ELSE <<[b |-> 200, n |-> len - 1], [b |-> 7, n |-> 1]>>

\* One definite-length block: '#', the digit count, the length, the payload,
\* the line feed.
Block(d, len) ==
    Stream(<<Hash, Zero + d>> \o Digits(d, len)) \o Payload(len) \o Stream(<<LineFeed>>)

\* As Block, with the header bytes given.
RawBlock(hdr, len) == Stream(hdr) \o Payload(len) \o Stream(<<LineFeed>>)

\* What the instrument answers to ":WAV:POIN?" and then to ":WAV:DATA?":
\* well-formed blocks whose lengths sum to the byte count.
Transfers ==
    { [total |-> ShortLen, resp |-> Block(1, ShortLen)],
      [total |-> 2, resp |-> Block(1, 1) \o Block(1, 1)] }

\* The headers tried on the decoder that the format allows: every digit
\* count, with no payload, one byte, a short and a long payload.
ValidHeaders ==
    { [d |-> d, len |-> len] : d \in 1..9, len \in {0, 1, ShortLen} }
    \cup { [d |-> 5, len |-> LongLen], [d |-> 9, len |-> LongLen] }

\* Header bytes the format does not allow: a wrong marker, a digit count
\* that is '0' or no digit, length characters that are no digits.
BadHeaders ==
    { <<88, 49, 50>>, <<LineFeed, Hash, 49>>, <<Hash, Zero, 50>>,
      <<Hash, 58, 50>>, <<Hash, 47, 50>>, <<Hash, 32, 50>>,
      <<Hash, 50, 32, 50>>, <<Hash, 50, 43, 50>>, <<Hash, 50, 45, 53>>,
      <<Hash, 50, 45, 49>>, <<Hash, 50, 50, 97>>, <<Hash, 50, 97, 50>>,
      <<Hash, 49, 45>>, <<Hash, 50, 50, NUL>>, <<Hash, 51, 32, 45, 50>> }

\* A well-formed block one byte longer than the byte count the instrument
\* answered to ":WAV:POIN?".
LongerTransfers == { [total |-> ShortLen - 1, resp |-> Block(1, ShortLen)] }

\* The responses tried on the decoder and the block reader.
BlockTransfers ==
    { [total |-> h.len, resp |-> Block(h.d, h.len)] : h \in ValidHeaders }
    \cup { [total |-> ShortLen, resp |-> RawBlock(hdr, ShortLen)] : hdr \in BadHeaders }
    \cup Transfers
    \cup LongerTransfers

\* The calibration constants the instrument reports (scaled to integers).
CalSets ==
    { [inc |-> 2, origin |-> 3, ref |-> 128],
      [inc |-> 5, origin |-> 0, ref |-> 127] }

---------------------------------------------------------------------------
(* The device context and the session *)

\* Channels as the session lists them: position in the device's channel
\* list (ch->index) and kind.
CH1 == [index |-> 0, type |-> "SR_CHANNEL_ANALOG"]
D8 == [index |-> 8, type |-> "SR_CHANNEL_LOGIC"]

\* The enabled channel lists tried.
ChannelLists == { <<CH1, D8>> }

\* The frame limits tried (0: no limit).
FrameLimits == {0, 1}

MAX_ANALOG_CHANNELS == 4

NoFrame == [out |-> <<>>, xfer |-> <<>>]

\* One machine state: what a step of the driver reads and changes.  The
\* records of the previous invocation (closed, ops) start empty.
Machine ==
    [devc |-> devc, wire |-> wire, out |-> out, begun |-> begun, ended |-> ended,
     closed |-> NoFrame, ops |-> <<>>, xfer |-> xfer, err |-> err,
     faults |-> faults, stalls |-> stalls]

\* The transport may still fail.
CanFail(m) == m.faults < MaxFaults

\* A read may still find nothing although bytes are to come.
CanStall(m) == m.stalls < MaxStalls

\* The current channel: devc->channel_entry->data.
Channel(d) == d.enabled_channels[d.channel_entry]

\* A channel cursor that never finds a next entry.
NoNext(d) == FALSE

\* devc->channel_entry->next is not NULL.
HasNext(d) == d.channel_entry < Len(d.enabled_channels)

Op(kind, what, req, ret, buf) ==
    [op |-> kind, what |-> what, req |-> req, ret |-> ret, buf |-> buf]

FramePacket(type) == [type |-> type, ch |-> -1, len |-> 0, data |-> <<>>]


\* sr_scpi_read_data returning ret: the bytes read leave the stream.
sr_scpi_read_data(m, what, req, ret) ==
    [m EXCEPT !.wire = IF ret > 0 THEN Drop(@, ret) ELSE @,
              !.ops = Append(@, Op("read", what, req, ret,
                                   IF ret > 0 THEN Take(m.wire, ret) ELSE <<>>)),
              !.err = @ \/ ret < 0,
              !.faults = IF ret < 0 THEN @ + 1 ELSE @,
              !.stalls = IF ret = 0 /\ m.wire # <<>> THEN @ + 1 ELSE @]

\* A command or query that reached the instrument: it drops what was left
\* of its previous response.
Sent(m, cmd, arg) ==
    [m EXCEPT !.wire = <<>>,
              !.ops = Append(@, Op("send", cmd, arg, SR_OK, <<>>))]

\* A command or query that failed.
NotSent(m, cmd, arg) ==
    [m EXCEPT !.ops = Append(@, Op("send", cmd, arg, SR_ERR, <<>>)),
              !.err = TRUE,
              !.faults = @ + 1]

std_session_send_df_frame_begin(m) ==
    [m EXCEPT !.out = <<FramePacket("SR_DF_FRAME_BEGIN")>>,
              !.begun = @ + 1,
              !.xfer = <<>>]

std_session_send_df_frame_end(m) ==
    [m EXCEPT !.out = Append(@, FramePacket("SR_DF_FRAME_END")),
              !.ended = @ + 1,
              !.closed = [out |-> Append(m.out, FramePacket("SR_DF_FRAME_END")),
                          xfer |-> m.xfer]]

---------------------------------------------------------------------------
(* keysight_capture_start *)

\* A capture start that does not look at the result of the send.
CaptureStartUnchecked(m, ok) ==
    IF ~ok
    THEN [NotSent(m, ":DIGitize;*OPC?", 0) EXCEPT !.devc.state = "STATE_DIGITIZING"]
    ELSE [Sent(m, ":DIGitize;*OPC?", 0) EXCEPT !.devc.state = "STATE_DIGITIZING"]

\* ok: the trigger command was sent.
keysight_capture_start(m, ok) ==
    IF ~ok
    THEN NotSent(m, ":DIGitize;*OPC?", 0)
    ELSE [Sent(m, ":DIGitize;*OPC?", 0) EXCEPT !.devc.state = "STATE_DIGITIZING"]

---------------------------------------------------------------------------
(* keysight_channel_start *)

\* The steps of a channel start that sets up and calibrates in every frame.
SetupEveryFrame(ch, first_frame) ==
    <<":WAV:SOUR", ":WAV:FORM BYTE", ":WAV:POIN:MODE NORM", ":WAV:UNS ON">>
    \o (IF ch.type = "SR_CHANNEL_ANALOG"
        THEN <<":WAV:YINC?", ":WAV:YOR?", ":WAV:YREF?">>
        ELSE <<>>)
    \o <<":WAV:POIN?", ":WAV:DATA?", "read_begin">>

\* The commands and queries keysight_channel_start issues, in order.
ChannelSteps(ch, first_frame) ==
    <<":WAV:SOUR">>
    \o (IF first_frame
        THEN <<":WAV:FORM BYTE", ":WAV:POIN:MODE NORM", ":WAV:UNS ON">>
             \o (IF ch.type = "SR_CHANNEL_ANALOG"
                 THEN <<":WAV:YINC?", ":WAV:YOR?", ":WAV:YREF?">>
                 ELSE <<>>)
        ELSE <<>>)
    \o <<":WAV:POIN?", ":WAV:DATA?", "read_begin">>

\* The argument of ":WAV:SOUR": CHAN<index + 1>, or POD1 / POD2 (as 101, 102).
SourceArg(ch) ==
    IF ch.type = "SR_CHANNEL_ANALOG" THEN ch.index + 1
    ELSE IF ch.index < 8 THEN 101 ELSE 102

\* keysight_channel_start where step number f fails (0: none does) and cal
\* and tr are the instrument's answers.  Every step before the failing one
\* has had its effect; the function returns at the failing one.
keysight_channel_start(m, f, cal, tr) ==
    LET ch == Channel(m.devc)
        steps == ChannelSteps(ch, m.devc.num_frames = 0)
        last == IF f = 0 THEN Len(steps) ELSE f
        Done(step) == \E i \in 1..Len(steps) : steps[i] = step /\ (f = 0 \/ i < f)
        Arg(step) == IF step = ":WAV:SOUR" THEN SourceArg(ch) ELSE 0
        d0 == m.devc
        d1 == IF Done(":WAV:YINC?")
              THEN [d0 EXCEPT !.vert_inc[ch.index] = cal.inc] ELSE d0
        d2 == IF Done(":WAV:YOR?")
              THEN [d1 EXCEPT !.vert_origin[ch.index] = cal.origin] ELSE d1
        d3 == IF Done(":WAV:YREF?")
              THEN [d2 EXCEPT !.vert_reference[ch.index] = cal.ref] ELSE d2
        d4 == IF Done(":WAV:POIN?")
              THEN [d3 EXCEPT !.num_channel_bytes_total = tr.total,
                              !.num_channel_bytes = 0,
                              !.num_header_bytes = 0,
                              !.buffer = <<>>,
                              !.num_block_bytes = 0]
              ELSE d3
        d5 == IF f = 0 THEN [d4 EXCEPT !.state = "STATE_READING_DATA"] ELSE d4
    IN  [m EXCEPT
            !.devc = d5,
            \* a command that reached the instrument drops what was left of its
            \* previous response; ":WAV:DATA?" brings the new one
            !.wire = IF Done(":WAV:DATA?") THEN tr.resp
                     ELSE IF Done(":WAV:SOUR") THEN <<>> ELSE @,
            !.ops = @ \o [i \in 1..last |->
                        Op("send", steps[i], Arg(steps[i]),
                           IF i = f THEN SR_ERR ELSE SR_OK, <<>>)],
            !.xfer = IF Done(":WAV:DATA?") THEN Append(@, m.devc.channel_entry) ELSE @,
            !.err = @ \/ f # 0,
            !.faults = IF f # 0 THEN @ + 1 ELSE @]

\* The outcomes of keysight_channel_start that differ: the failing step, and
\* the answers the instrument gives.
FailSteps(d, canFail) ==
    IF canFail THEN 0..Len(ChannelSteps(Channel(d), d.num_frames = 0)) ELSE {0}

\* Whether step `step` is reached and succeeds when step number f fails.
StepDone(d, f, step) ==
    LET steps == ChannelSteps(Channel(d), d.num_frames = 0)
    IN  \E i \in 1..Len(steps) : steps[i] = step /\ (f = 0 \/ i < f)

\* The answers to the calibration queries, where one is made.
CalAnswers(d, f) ==
    IF StepDone(d, f, ":WAV:YINC?") THEN CalSets ELSE {CHOOSE c \in CalSets : TRUE}

\* The answers to ":WAV:POIN?" and ":WAV:DATA?", where the first is made.
TransferAnswers(d, f) ==
    IF StepDone(d, f, ":WAV:POIN?") THEN Transfers ELSE {CHOOSE t \in Transfers : TRUE}

---------------------------------------------------------------------------
(* keysight_read_header *)

\* devc->buffer holds the header bytes read so far at its start.  The model
\* keeps these, not the payload that a later read puts in their place (the
\* decoder does not look at the buffer again before num_header_bytes is
\* reset), and forgets them where num_header_bytes is reset.
StoreHeader(m, got) ==
    [m EXCEPT !.devc.buffer = @ \o Bytes(got),
              !.devc.num_header_bytes = @ + Avail(got)]

\* 2 + buf[1] - '0'
HeaderLength(d) == 2 + d.buffer[2] - Zero

\* A check of the digit count alone.
BadDigitCount(buf) == ~isdigit(buf[2]) \/ buf[2] = Zero

\* buf[0] != '#' || !isdigit(buf[1]) || buf[1] == '0'
BadMarker(buf) == buf[1] # Hash \/ ~isdigit(buf[2]) \/ buf[2] = Zero

\* The hash sign and the length digit: the read of the first two bytes (r1
\* is what it returns) and their check.  done: the decoder returns ret.
ReadHeaderMarker(m, r1) ==
    LET need == m.devc.num_header_bytes < 2
        rd == IF need
              THEN sr_scpi_read_data(m, "header", 2 - m.devc.num_header_bytes, r1)
              ELSE m
    IN  IF need /\ r1 < 0 THEN [m |-> rd, done |-> TRUE, ret |-> SR_ERR]
        ELSE With(IF need THEN StoreHeader(rd, Take(m.wire, r1)) ELSE rd, LAMBDA m1 :
             IF m1.devc.num_header_bytes < 2 THEN [m |-> m1, done |-> TRUE, ret |-> 0]
             ELSE IF BadMarker(m1.devc.buffer)
             THEN [m |-> m1, done |-> TRUE, ret |-> SR_ERR]
             ELSE [m |-> m1, done |-> FALSE, ret |-> 0])

\* The length digits: the read of the rest of the header (r2 is what it
\* returns) and parse_int.
ReadHeaderLength(m, r2) ==
    LET need == m.devc.num_header_bytes < HeaderLength(m.devc)
        rd == IF need
              THEN sr_scpi_read_data(m, "header",
                       HeaderLength(m.devc) - m.devc.num_header_bytes, r2)
              ELSE m
    IN  IF need /\ r2 < 0 THEN [m |-> rd, ret |-> SR_ERR]
        ELSE With(IF need THEN StoreHeader(rd, Take(m.wire, r2)) ELSE rd, LAMBDA m1 :
             IF m1.devc.num_header_bytes < HeaderLength(m1.devc) THEN [m |-> m1, ret |-> 0]
             ELSE With(parse_int(SubSeq(m1.devc.buffer, 3, HeaderLength(m1.devc))),
                       LAMBDA p : IF p.ret # SR_OK THEN [m |-> m1, ret |-> -1]
                                  ELSE [m |-> m1, ret |-> p.val]))

keysight_read_header(m, r1, r2) ==
    With(ReadHeaderMarker(m, r1), LAMBDA a :
        IF a.done THEN [m |-> a.m, ret |-> a.ret]
        ELSE With(a.m, LAMBDA m1 : ReadHeaderLength(m1, r2)))

\* What the two reads of the decoder can return.
MarkerRets(m) ==
    IF m.devc.num_header_bytes < 2
    THEN ReadRets(2 - m.devc.num_header_bytes, m.wire, CanFail(m), CanStall(m))
    ELSE {0}

LengthRets(m, r1) ==
    LET a == ReadHeaderMarker(m, r1)
    IN  IF ~a.done /\ a.m.devc.num_header_bytes < HeaderLength(a.m.devc)
        THEN ReadRets(HeaderLength(a.m.devc) - a.m.devc.num_header_bytes, a.m.wire,
                      CanFail(a.m), CanStall(a.m))
        ELSE {0}

---------------------------------------------------------------------------
(* keysight_receive *)

\* An abort that leaves the frame open.
AbortWithoutFrameEnd(m) ==
    [m EXCEPT
        !.ops = Append(@, Op("stop", "sr_dev_acquisition_stop", 0, 0, <<>>)),
        !.devc.state = "STATE_IDLE",
        !.err = TRUE]

\* The abort of a capture: frame end, acquisition stop, idle.
AbortCapture(m) ==
    [std_session_send_df_frame_end(m) EXCEPT
        !.ops = Append(@, Op("stop", "sr_dev_acquisition_stop", 0, 0, <<>>)),
        !.devc.state = "STATE_IDLE",
        !.err = TRUE]

\* The branch keysight_receive takes on what the header decoder returned.
HeaderVerdict(len) ==
    IF len = 0 THEN "incomplete" ELSE IF len = -1 THEN "error" ELSE "length"

\* A header decode after which the handler returns in every case.
ReceiveHeaderAndReturn(m, r1, r2) ==
    IF m.devc.num_block_bytes # 0 THEN [m |-> m, go |-> TRUE]
    ELSE
      LET h == keysight_read_header(m, r1, r2)
          len == h.ret
          m1 == [h.m EXCEPT !.ops = Append(@, Op("header", HeaderVerdict(len), 0, len,
                                                 h.m.devc.buffer))]
      IN  IF len = 0 THEN [m |-> m1, go |-> FALSE]
          ELSE IF len = -1 THEN [m |-> AbortCapture(m1), go |-> FALSE]
          ELSE [m |-> [m1 EXCEPT !.devc.num_block_bytes = len,
                                 !.devc.num_block_read = 0],
                go |-> FALSE]

\* A new block header is expected (num_block_bytes is 0): decode it.
\* go: the handler goes on to read payload.
ReceiveHeader(m, r1, r2) ==
    IF m.devc.num_block_bytes # 0 THEN [m |-> m, go |-> TRUE]
    ELSE
      With(keysight_read_header(m, r1, r2), LAMBDA h :
      LET len == h.ret
      IN  With([h.m EXCEPT !.ops = Append(@, Op("header", HeaderVerdict(len), 0, len,
                                                h.m.devc.buffer))], LAMBDA m1 :
          IF len = 0 THEN [m |-> m1, go |-> FALSE]
          ELSE IF len = -1 THEN [m |-> AbortCapture(m1), go |-> FALSE]
          ELSE [m |-> [m1 EXCEPT !.devc.num_block_bytes = len,
                                 !.devc.num_block_read = 0],
                go |-> TRUE]))

\* The number of bytes the payload read asks for.
DataRequest(d) == Min(d.num_block_bytes - d.num_block_read, ACQ_BUFFER_SIZE)

\* The sample of a buffer of signed char.
SignedCharValue(d, ch, b) ==
    ((IF b >= 128 THEN b - 256 ELSE b)
        - d.vert_reference[ch.index] - d.vert_origin[ch.index]) * d.vert_inc[ch.index]

\* ((int)devc->buffer[i] - vref - origin) * vdiv, the buffer being of
\* unsigned char.
AnalogValue(d, ch, b) ==
    (b - d.vert_reference[ch.index] - d.vert_origin[ch.index]) * d.vert_inc[ch.index]

\* The loop over the chunk, sample by sample.
AnalogData(d, ch, raw) ==
    [i \in 1..Len(raw) |-> [b |-> AnalogValue(d, ch, raw[i].b), n |-> raw[i].n]]

\* A logic packet as long as the block, not as the chunk read.
BlockLengthPacket(d, ch, len, raw) ==
    IF ch.type = "SR_CHANNEL_ANALOG"
    THEN [type |-> "SR_DF_ANALOG", ch |-> ch.index, len |-> len,
          data |-> AnalogData(d, ch, raw)]
    ELSE [type |-> "SR_DF_LOGIC", ch |-> ch.index, len |-> d.num_block_bytes,
          unitsize |-> 1, data |-> raw]

SamplePacket(d, ch, len, raw) ==
    IF ch.type = "SR_CHANNEL_ANALOG"
    THEN [type |-> "SR_DF_ANALOG", ch |-> ch.index, len |-> len,
          data |-> AnalogData(d, ch, raw)]
    ELSE [type |-> "SR_DF_LOGIC", ch |-> ch.index, len |-> len, unitsize |-> 1,
          data |-> raw]

\* One payload read (rp is what it returns), and the packet made of it.
ReceiveData(m, rp) ==
    LET rd == sr_scpi_read_data(m, "data", DataRequest(m.devc), rp)
    IN  IF rp = -1 THEN [m |-> AbortCapture(rd), go |-> FALSE]
        ELSE [m |-> [rd EXCEPT
                       !.devc.num_block_read = @ + rp,
                       !.out = Append(@, SamplePacket(m.devc, Channel(m.devc), rp,
                                                      Take(m.wire, rp)))],
              go |-> TRUE]

\* The block has been completed: discard the line feed (rd is what that read
\* returns) and prepare for the next block.
BlockComplete(d) == d.num_block_read = d.num_block_bytes

ReceiveBlockEnd(m, rd) ==
    IF BlockComplete(m.devc)
    THEN [sr_scpi_read_data(m, "linefeed", 1, rd) EXCEPT
            !.devc.num_header_bytes = 0,
            !.devc.buffer = <<>>,
            !.devc.num_block_bytes = 0,
            !.devc.num_block_read = 0]
    ELSE m

\* The byte count of the channel after len more bytes, and whether the
\* channel still lacks data.
ChannelIncomplete(d) == U64Less(d.num_channel_bytes, d.num_channel_bytes_total)

\* A frame close that leaves the cursor on the last channel.
FrameCloseKeepCursor(m, ok) ==
    LET e == [std_session_send_df_frame_end(m) EXCEPT
                !.devc.state = "STATE_IDLE",
                !.devc.num_frames = @ + 1]
    IN  std_session_send_df_frame_begin(keysight_capture_start(e, ok))

\* The end of the frame: frame end, next capture (ok: the trigger was sent),
\* frame begin.
FrameClose(m, ok) ==
    LET e == [std_session_send_df_frame_end(m) EXCEPT
                !.devc.state = "STATE_IDLE",
                !.devc.num_frames = @ + 1,
                !.devc.channel_entry = 1]
    IN  std_session_send_df_frame_begin(keysight_capture_start(e, ok))

\* The next channel of the frame.
ChannelAdvance(m, f, cal, tr) ==
    keysight_channel_start([m EXCEPT !.devc.channel_entry = @ + 1], f, cal, tr)

\* The machine state `after` is the next state.
Becomes(after) ==
    \E m \in {after} :
        /\ devc' = m.devc
        /\ wire' = m.wire
        /\ out' = m.out
        /\ begun' = m.begun
        /\ ended' = m.ended
        /\ closed' = m.closed
        /\ ops' = m.ops
        /\ xfer' = m.xfer
        /\ err' = m.err
        /\ faults' = m.faults
        /\ stalls' = m.stalls

\* The handler returns.
Commit(after) == Becomes(after) /\ UNCHANGED started

\* The tail of the handler, from the count of the channel's bytes on.
ReceiveChannelEnd(m, len) ==
    \E c \in {[m EXCEPT !.devc.num_channel_bytes = @ + len]} :
        IF ChannelIncomplete(c.devc) THEN Commit(c)
        ELSE IF HasNext(c.devc)
        THEN \E n \in {[c.devc EXCEPT !.channel_entry = @ + 1]} :
             \E f \in FailSteps(n, CanFail(c)) :
             \E cal \in CalAnswers(n, f), tr \in TransferAnswers(n, f) :
                 Commit(ChannelAdvance(c, f, cal, tr))
        ELSE \E ok \in {TRUE} \cup {~CanFail(c)} : Commit(FrameClose(c, ok))

\* STATE_READING_DATA: header, payload, block end, channel end.
ReceiveReading(m) ==
    \E r1 \in (IF m.devc.num_block_bytes = 0 THEN MarkerRets(m) ELSE {0}) :
    \E r2 \in (IF m.devc.num_block_bytes = 0 THEN LengthRets(m, r1) ELSE {0}) :
    \E h \in {ReceiveHeader(m, r1, r2)} :
        IF ~h.go THEN Commit(h.m)
        ELSE \E rp \in ReadRets(DataRequest(h.m.devc), h.m.wire, CanFail(h.m), CanStall(h.m)) :
             \E p \in {ReceiveData(h.m, rp)} :
                IF ~p.go THEN Commit(p.m)
                ELSE \E rd \in (IF BlockComplete(p.m.devc)
                                THEN ReadRets(1, p.m.wire, CanFail(p.m), CanStall(p.m))
                                ELSE {0}) :
                     \E b \in {ReceiveBlockEnd(p.m, rd)} :
                        ReceiveChannelEnd(b, rp)

\* STATE_DIGITIZING: start the first channel; the result is not looked at.
ReceiveDigitizing(m) ==
    \E f \in FailSteps(m.devc, CanFail(m)) :
    \E cal \in CalAnswers(m.devc, f), tr \in TransferAnswers(m.devc, f) :
        Commit(keysight_channel_start(m, f, cal, tr))

\* A handler that looks at no readiness flags.
NeverIgnored(revents) == FALSE

\* !(revents == G_IO_IN || revents == 0)
Ignored(revents) == ~(revents = G_IO_IN \/ revents = 0)

\* STATE_IDLE: return.
ReceiveIdle(m) == m

keysight_receive ==
    /\ devc.num_frames < MaxFrames
    /\ Len(out) < MaxOut
    /\ \E revents \in {0, G_IO_IN, G_IO_ERR} :
        \E m \in {[Machine EXCEPT !.ops = <<Op("call", "revents", revents, 0, <<>>)>>]} :
             IF Ignored(revents) THEN Commit(m)
             ELSE IF m.devc.state = "STATE_IDLE" THEN Commit(ReceiveIdle(m))
             ELSE IF m.devc.state = "STATE_DIGITIZING" THEN ReceiveDigitizing(m)
             ELSE ReceiveReading(m)

---------------------------------------------------------------------------
(* The start of an acquisition: the session's entry point, which sets the   *)
(* channel cursor, starts the first capture and opens the first frame.     *)

\* ok: the trigger command was sent.
StartAcquisition(m, ok) ==
    LET c == keysight_capture_start([m EXCEPT !.devc.channel_entry = 1,
                                              !.devc.num_frames = 0], ok)
    IN  IF ok THEN std_session_send_df_frame_begin(c) ELSE c

AcquisitionStart ==
    /\ ~started
    /\ devc.state = "STATE_IDLE"
    /\ started' = TRUE
    /\ \E ok \in {TRUE} \cup {~CanFail(Machine)} :
        Becomes(StartAcquisition(Machine, ok))

---------------------------------------------------------------------------

InitContext(chs, limit) ==
    [state |-> "STATE_IDLE",
     enabled_channels |-> chs,
     limit_frames |-> limit,
     num_frames |-> 0,
     channel_entry |-> 1,
     num_channel_bytes_total |-> 0,
     num_channel_bytes |-> 0,
     num_header_bytes |-> 0,
     num_block_bytes |-> 0,
     num_block_read |-> 0,
     buffer |-> <<>>,
     vert_inc |-> [i \in 0..(MAX_ANALOG_CHANNELS - 1) |-> 0],
     vert_origin |-> [i \in 0..(MAX_ANALOG_CHANNELS - 1) |-> 0],
     vert_reference |-> [i \in 0..(MAX_ANALOG_CHANNELS - 1) |-> 0]]

InitMachine(chs, limit) ==
    [devc |-> InitContext(chs, limit), wire |-> <<>>, out |-> <<>>, begun |-> 0,
     ended |-> 0, closed |-> NoFrame, ops |-> <<>>, xfer |-> <<>>, err |-> FALSE, faults |-> 0,
     stalls |-> 0]

\* The machine state `now` is the current state.
Is(now) ==
    \E m \in {now} :
    /\ devc = m.devc
    /\ wire = m.wire
    /\ out = m.out
    /\ begun = m.begun
    /\ ended = m.ended
    /\ closed = m.closed
    /\ ops = m.ops
    /\ xfer = m.xfer
    /\ err = m.err
    /\ faults = m.faults
    /\ stalls = m.stalls

Init ==
    /\ \E chs \in ChannelLists, limit \in FrameLimits : Is(InitMachine(chs, limit))
    /\ started = FALSE

Next == AcquisitionStart \/ keysight_receive

\* The driver from the start of an acquisition on.
Spec == Init /\ [][Next]_vars

---------------------------------------------------------------------------
(* The decoder and the block reader on one transfer: the acquisition has   *)
(* started and the first channel's data was requested; the instrument      *)
(* answers with any of BlockTransfers.  The run ends when the handler has  *)
(* requested the next channel's data.                                      *)

InitBlock ==
    /\ \E chs \in ChannelLists, limit \in FrameLimits, cal \in CalSets,
          tr \in BlockTransfers :
          \E s \in {StartAcquisition(InitMachine(chs, limit), TRUE)} :
              Is([keysight_channel_start(s, 0, cal, tr) EXCEPT !.ops = <<>>])
    /\ started = TRUE

NextBlock == xfer = <<1>> /\ keysight_receive

SpecBlock == InitBlock /\ [][NextBlock]_vars

---------------------------------------------------------------------------
(* The driver with a stop request from outside: the request forces the     *)
(* state to idle wherever the capture is, and nothing is drained from the  *)
(* transport.                                                              *)

ExternalStop ==
    /\ started
    /\ devc.state # "STATE_IDLE"
    /\ Commit([Machine EXCEPT !.devc.state = "STATE_IDLE"])

NextStop == AcquisitionStart \/ keysight_receive \/ ExternalStop

SpecStop == Init /\ [][NextStop]_vars

---------------------------------------------------------------------------
(* The block reader on a transport that never fails: the acquisition has   *)
(* started and the first channel's data was requested; the instrument      *)
(* answers with well-formed blocks whose lengths sum to the byte count, a  *)
(* read finds nothing at most MaxStalls times, and the session's loop      *)
(* keeps invoking the handler, on input or on its timeout.  The run ends   *)
(* when the handler has requested the next channel's data.                 *)

\* Well-formed responses: one block of every digit count, empty, of one
\* byte, short or long; two blocks; an empty block before a block of data.
LiveTransfers ==
    { [total |-> h.len, resp |-> Block(h.d, h.len)] : h \in ValidHeaders }
    \cup Transfers
    \cup { [total |-> ShortLen, resp |-> Block(1, 0) \o Block(1, ShortLen)] }

InitLive ==
    /\ \E chs \in ChannelLists, limit \in FrameLimits, cal \in CalSets,
          tr \in LiveTransfers :
          \E s \in {StartAcquisition(InitMachine(chs, limit), TRUE)} :
              Is([keysight_channel_start(s, 0, cal, tr) EXCEPT
                    !.ops = <<>>, !.faults = MaxFaults])
    /\ started = TRUE

NextLive == xfer = <<1>> /\ keysight_receive

\* An invocation with readiness flags the handler acts on.
Invoked ==
    /\ NextLive
    /\ \E i \in 1..Len(ops') : ops'[i].op = "call" /\ ~Ignored(ops'[i].req)

SpecLive == InitLive /\ [][NextLive]_vars /\ WF_vars(Invoked)

---------------------------------------------------------------------------
(* Properties *)

IsSample(p) == p.type \in {"SR_DF_ANALOG", "SR_DF_LOGIC"}

\* The place in the enabled channel list of the channel with this index.
Position(d, index) ==
    CHOOSE k \in 1..Len(d.enabled_channels) : d.enabled_channels[k].index = index

\* The places of all enabled channels, in order.
AllChannels(d) == [k \in 1..Len(d.enabled_channels) |-> k]

IsPrefix(a, b) == Len(a) <= Len(b) /\ a = SubSeq(b, 1, Len(a))

HeaderOps(o) == {i \in 1..Len(o) : o[i].op = "header"}

ReadOps(o) == {i \in 1..Len(o) : o[i].op = "read"}

DataReads(o) == {i \in 1..Len(o) : o[i].op = "read" /\ o[i].what = "data"}

SendOps(o) == {i \in 1..Len(o) : o[i].op = "send"}

\* A command, a query or the read begin failed in the invocation.
FailedStep(o) == \E i \in SendOps(o) : o[i].ret = SR_ERR

\* The invocation decoded a header and failed, or a payload read failed.
AbortCause(o) ==
    \/ \E i \in HeaderOps(o) : o[i].what = "error"
    \/ \E i \in DataReads(o) : o[i].ret = -1

\* '#', a digit count in '1'..'9'.
GoodMarker(buf) == Len(buf) >= 2 /\ buf[1] = Hash /\ buf[2] \in (Zero + 1)..Nine

\* All bytes of the header are there.
WholeHeader(buf) == GoodMarker(buf) /\ Len(buf) = 2 + (buf[2] - Zero)

\* A whole header whose length characters are all decimal digits.
ValidHeader(buf) == WholeHeader(buf) /\ \A k \in 3..Len(buf) : buf[k] \in Zero..Nine

\* The length a valid header declares.
DeclaredLength(buf) == DecimalValue(SubSeq(buf, 3, Len(buf)))

\* A sequence of bytes that a later byte can make a valid header.
HeaderStart(buf) ==
    /\ Len(buf) >= 1 => buf[1] = Hash
    /\ Len(buf) >= 2 => /\ GoodMarker(buf)
                        /\ Len(buf) < 2 + (buf[2] - Zero)
                        /\ \A k \in 3..Len(buf) : buf[k] \in Zero..Nine

\* C1: with a nonzero frame limit and no error, once the frame counter has
\* reached the limit the state machine is Idle, the invocation that closed
\* the frame sent no trigger, and as many frames were begun and ended as the
\* limit says.
C1_FrameLimitStops ==
    (devc.limit_frames # 0 /\ ~err /\ devc.num_frames >= devc.limit_frames)
    => /\ devc.state = "STATE_IDLE"
       /\ begun = devc.limit_frames
       /\ ended = devc.limit_frames
       /\ \A i \in SendOps(ops) : ops[i].what # ":DIGitize;*OPC?"

\* C2: an invocation in ReadingData in which header decoding fails or a
\* payload read returns a transport error emits one FrameEnd and nothing
\* else and leaves the state Idle; an invocation in Idle reads nothing, emits
\* nothing and stays Idle.
C2_AbortOnError ==
    [][ /\ (devc.state = "STATE_READING_DATA" /\ AbortCause(ops'))
           => /\ out' = Append(out, FramePacket("SR_DF_FRAME_END"))
              /\ ended' = ended + 1
              /\ begun' = begun
              /\ devc'.state = "STATE_IDLE"
        /\ (started /\ devc.state = "STATE_IDLE")
           => /\ ReadOps(ops') = {}
              /\ SendOps(ops') = {}
              /\ out' = out
              /\ wire' = wire
              /\ begun' = begun
              /\ ended' = ended
              /\ devc' = devc
      ]_vars

\* C2 happens: a payload read failed in the middle of a block, the frame was
\* ended, and the handler has been invoked again in Idle.
C2_AbortedMidBlock ==
    /\ devc.state = "STATE_IDLE"
    /\ ReadOps(ops) = {}
    /\ SendOps(ops) = {}
    /\ \E i \in 1..Len(ops) : ops[i].op = "call" /\ ops[i].req = G_IO_IN
    /\ faults = 1
    /\ devc.num_block_read > 0
    /\ devc.num_block_read < devc.num_block_bytes
    /\ begun = 1
    /\ ended = 1
    /\ out[Len(out)].type = "SR_DF_FRAME_END"

\* C3: an invocation of the handler in which a step of the channel start or
\* the trigger command fails ends the frame and leaves the state Idle, and
\* the invocation after one with a failed step sends nothing.
C3_FailedStepAborts ==
    [][ /\ (devc.state # "STATE_IDLE" /\ FailedStep(ops'))
           => (devc'.state = "STATE_IDLE" /\ ended' = ended + 1 /\ begun' = begun)
        /\ (devc.state # "STATE_IDLE" /\ FailedStep(ops))
           => SendOps(ops') = {}
      ]_vars

\* C4: whenever the state machine is Idle, every frame that was begun has
\* been ended.
C4_NoOpenFrameWhenIdle ==
    devc.state = "STATE_IDLE" => begun = ended

\* C5: whenever the decoder has run, if the header bytes read so far are a
\* valid header declaring L (L = 0 included) it has reported the length L and
\* the handler has gone on to ask for min(L, buffer size) payload bytes; if
\* they are only the start of a header and no read failed, it has reported
\* incomplete.
C5_HeaderDecoded ==
    \A i \in HeaderOps(ops) :
        /\ ValidHeader(ops[i].buf)
           => /\ ops[i].what = "length"
              /\ ops[i].ret = DeclaredLength(ops[i].buf)
              /\ i + 1 \in DataReads(ops)
              /\ ops[i + 1].req = Min(DeclaredLength(ops[i].buf), ACQ_BUFFER_SIZE)
        /\ (HeaderStart(ops[i].buf) /\ \A j \in ReadOps(ops) : j < i => ops[j].ret >= 0)
           => ops[i].what = "incomplete"

\* C6: whenever the decoder has run and the first two header bytes are there,
\* if byte 0 is not '#' or byte 1 is not in '1'..'9' the decoder has reported
\* an error, no header byte beyond the two was read, the handler has made no
\* read after the decoder returned, and the state is Idle.
C6_BadMarkerIsFramingError ==
    \A i \in HeaderOps(ops) :
        (Len(ops[i].buf) >= 2 /\ ~GoodMarker(ops[i].buf))
        => /\ ops[i].what = "error"
           /\ ops[i].ret = -1
           /\ Len(ops[i].buf) = 2
           /\ \A j \in ReadOps(ops) : j < i
           /\ devc.state = "STATE_IDLE"

\* C6 happens: the decoder has run on a header that starts with "#0".
C6_ZeroDigitCountSeen ==
    \E i \in HeaderOps(ops) : ops[i].buf = <<Hash, Zero>> /\ ops[i].what = "error"

\* C7: the decoder never reports a negative length, and whenever it has run
\* on a whole header with a good marker in which a length character is not a
\* decimal digit, it has reported an error, the handler has made no read
\* after it, and the state is Idle.
C7_BadLengthIsFramingError ==
    \A i \in HeaderOps(ops) :
        /\ ops[i].ret >= -1
        /\ (WholeHeader(ops[i].buf) /\ ~ValidHeader(ops[i].buf))
           => /\ ops[i].what = "error"
              /\ \A j \in ReadOps(ops) : j < i
              /\ devc.state = "STATE_IDLE"

\* C8: in an invocation that works on a block whose header is valid and
\* declares L, with `before` bytes of the block read by earlier invocations:
\* a payload read asks for min(L - before, buffer size) bytes; the bytes read
\* never exceed L; and the block is completed (the delimiter is read and the
\* counters are reset) exactly if before plus the bytes the read returned is
\* L.
C8_BlockReader ==
    [][ LET mid == devc.num_block_bytes # 0
            hdr == IF mid THEN devc.buffer
                   ELSE IF HeaderOps(ops') # {}
                   THEN ops'[CHOOSE i \in HeaderOps(ops') : TRUE].buf
                   ELSE <<>>
            L == DeclaredLength(hdr)
            before == IF mid THEN devc.num_block_read ELSE 0
            got == IF \E i \in DataReads(ops') : ops'[i].ret > 0
                   THEN ops'[CHOOSE i \in DataReads(ops') : TRUE].ret
                   ELSE 0
            completed == \E i \in ReadOps(ops') : ops'[i].what = "linefeed"
        IN  (devc.state = "STATE_READING_DATA" /\ ValidHeader(hdr))
            => /\ \A i \in DataReads(ops') : ops'[i].req = Min(L - before, ACQ_BUFFER_SIZE)
               /\ before + got <= L
               /\ completed <=> (before + got = L)
               /\ completed => (devc'.num_block_bytes = 0 /\ devc'.num_block_read = 0)
               /\ (~completed /\ devc'.num_block_bytes # 0)
                  => (devc'.num_block_bytes = L /\ devc'.num_block_read = before + got)
      ]_vars

\* The packets of one frame in order: the frame begin first, a frame end
\* only last, the samples of a channel before those of the channels after it.
FrameOrder(d, seq) ==
    /\ seq[1].type = "SR_DF_FRAME_BEGIN"
    /\ \A i \in 2..Len(seq) :
        /\ seq[i].type # "SR_DF_FRAME_BEGIN"
        /\ seq[i].type = "SR_DF_FRAME_END" => i = Len(seq)
    /\ \A i, j \in 2..Len(seq) :
        (i < j /\ IsSample(seq[i]) /\ IsSample(seq[j]))
        => Position(d, seq[i].ch) <= Position(d, seq[j].ch)

\* C9: as long as no error has occurred, the packets since the last frame
\* begin are in frame order, no packet came before the first frame begin, the
\* channels whose data was requested in the frame are the first enabled
\* channels in order, each once, every sample is of one of them, and a frame
\* that was closed is in frame
\* order, ends with its frame end, and had every enabled channel's data
\* requested exactly once, in order.
C9_FrameOrder ==
    ~err
    => /\ out = <<>> => begun = 0
       /\ out # <<>> => FrameOrder(devc, out)
       /\ IsPrefix(xfer, AllChannels(devc))
       /\ \A i \in 1..Len(out) :
            IsSample(out[i]) => \E k \in 1..Len(xfer) : xfer[k] = Position(devc, out[i].ch)
       /\ closed # NoFrame
          => /\ FrameOrder(devc, closed.out)
             /\ closed.out[Len(closed.out)].type = "SR_DF_FRAME_END"
             /\ closed.xfer = AllChannels(devc)
             /\ \A k \in 1..Len(devc.enabled_channels) :
                    \E i \in 1..Len(closed.out) :
                        /\ IsSample(closed.out[i])
                        /\ closed.out[i].ch = devc.enabled_channels[k].index

\* C9 happens: a frame with samples of the first and of the last channel was
\* closed without an error.
C9_FrameClosed ==
    /\ ~err
    /\ closed # NoFrame
    /\ Len(closed.out) >= 4
    /\ closed.out[2].ch = devc.enabled_channels[1].index
    /\ closed.out[Len(closed.out) - 1].ch
          = devc.enabled_channels[Len(devc.enabled_channels)].index

\* C10: as long as no transport operation has failed, when the handler awaits
\* a new block header the next byte of the response is not a line feed, and
\* the first byte the decoder has been handed is not a line feed.
C10_DelimiterConsumed ==
    faults = 0
    => /\ (/\ devc.state = "STATE_READING_DATA"
           /\ devc.num_block_bytes = 0
           /\ devc.num_header_bytes = 0
           /\ wire # <<>>)
          => Head(wire).b # LineFeed
       /\ \A i \in HeaderOps(ops) :
            ops[i].buf # <<>> => ops[i].buf[1] # LineFeed

\* C11: an invocation that finds a block in progress and whose payload read
\* returns zero bytes leaves the state, the channel cursor, the frame counter,
\* the block's length and bytes read and the channel's byte count unchanged,
\* emits no packet, reads no delimiter and sends nothing.
C11_EmptyReadIsNoData ==
    [][ (/\ devc.state = "STATE_READING_DATA"
         /\ devc.num_block_bytes # 0
         /\ \E i \in DataReads(ops') : ops'[i].ret = 0)
        => /\ devc'.state = devc.state
           /\ devc'.channel_entry = devc.channel_entry
           /\ devc'.num_frames = devc.num_frames
           /\ devc'.num_block_read = devc.num_block_read
           /\ devc'.num_block_bytes = devc.num_block_bytes
           /\ devc'.num_channel_bytes = devc.num_channel_bytes
           /\ \A i \in ReadOps(ops') : ops'[i].what # "linefeed"
           /\ SendOps(ops') = {}
           /\ out' = out
      ]_vars

\* The kinds of work in the record of an invocation: a header decode, a
\* payload read, a channel or frame start.
UnitsOfWork(o) ==
    (IF HeaderOps(o) # {} THEN {"header"} ELSE {})
    \cup (IF DataReads(o) # {} THEN {"payload"} ELSE {})
    \cup (IF SendOps(o) # {} THEN {"start"} ELSE {})

\* C12 as claimed: an invocation does at most one kind of work: a header
\* decode, or a payload read, or a channel or frame start.
C12_OneUnitOfWork ==
    Cardinality(UnitsOfWork(ops)) <= 1

\* C12 as amended: an invocation decodes at most one header with at most two
\* header reads, reads at most one payload chunk and at most one delimiter,
\* starts at most one channel and at most one capture, all in this order; and
\* an invocation that decodes a header to a length reads a payload chunk too.
C12_UnitsInOrder ==
    /\ Cardinality(HeaderOps(ops)) <= 1
    /\ Cardinality({i \in ReadOps(ops) : ops[i].what = "header"}) <= 2
    /\ Cardinality(DataReads(ops)) <= 1
    /\ Cardinality({i \in ReadOps(ops) : ops[i].what = "linefeed"}) <= 1
    /\ Cardinality({i \in SendOps(ops) : ops[i].what = ":WAV:SOUR"}) <= 1
    /\ Cardinality({i \in SendOps(ops) : ops[i].what = ":DIGitize;*OPC?"}) <= 1
    /\ \A i \in ReadOps(ops), h \in HeaderOps(ops) :
        (i < h) <=> (ops[i].what = "header")
    /\ \A i \in ReadOps(ops), j \in DataReads(ops) :
        ops[i].what = "linefeed" => j < i
    /\ \A i \in ReadOps(ops), j \in SendOps(ops) : i < j
    /\ \A h \in HeaderOps(ops) : ops[h].what = "length" => h + 1 \in DataReads(ops)

\* C12 happens: one invocation decoded a header, read the payload and the
\* delimiter, and started the next channel.
C12_AllInOneInvocation ==
    /\ \E h \in HeaderOps(ops) : ops[h].what = "length"
    /\ \E i \in DataReads(ops) : ops[i].ret > 0
    /\ \E i \in ReadOps(ops) : ops[i].what = "linefeed"
    /\ \E i \in SendOps(ops) : ops[i].what = ":WAV:DATA?" /\ ops[i].ret = SR_OK

---------------------------------------------------------------------------
\* The invocation that leads to the next state read nothing, sent nothing,
\* emitted nothing and changed no field of the context.
DidNothing ==
    /\ ReadOps(ops') = {}
    /\ SendOps(ops') = {}
    /\ HeaderOps(ops') = {}
    /\ devc' = devc
    /\ wire' = wire
    /\ out' = out
    /\ begun' = begun
    /\ ended' = ended
    /\ closed' = NoFrame

\* The readiness flags the handler was invoked with.
Flags(o) == {o[i].req : i \in {j \in 1..Len(o) : o[j].op = "call"}}

\* C13: an invocation of the handler in the idle state (before the start,
\* after a fatal error, after a stop request in the middle of a block) reads
\* nothing, sends nothing, emits nothing and changes no field of the context;
\* so does an invocation in any state with readiness flags that are neither
\* G_IO_IN nor zero.  The idle state is left only by a capture start: the
\* next state is then digitizing and the capture command was sent.
C13_IdleDoesNothing ==
    [][/\ (Flags(ops') # {} /\ devc.state = "STATE_IDLE") => DidNothing
       /\ (Flags(ops') # {} /\ Flags(ops') \cap {G_IO_IN, 0} = {}) => DidNothing
       /\ (devc.state = "STATE_IDLE" /\ devc'.state # "STATE_IDLE") =>
              /\ devc'.state = "STATE_DIGITIZING"
              /\ \E i \in SendOps(ops') :
                    ops'[i].what = ":DIGitize;*OPC?" /\ ops'[i].ret = SR_OK]_vars

\* The handler was invoked in the idle state a stop request left in the
\* middle of a block, with bytes of the block still in the transport.
C13_InvokedAfterStop ==
    /\ devc.state = "STATE_IDLE"
    /\ ~err
    /\ 0 < devc.num_block_read
    /\ devc.num_block_read < devc.num_block_bytes
    /\ Avail(wire) > 0
    /\ Flags(ops) = {G_IO_IN}

---------------------------------------------------------------------------
\* The packets of the current frame after the invocation that leads to the
\* next state, the frame's end included if the invocation closed it.
Emitted == IF closed' # NoFrame THEN closed'.out ELSE out'

RECURSIVE ReadBefore(_, _)
\* The number of bytes the reads before the i-th operation took.
ReadBefore(o, i) ==
    IF i <= 1 THEN 0
    ELSE ReadBefore(o, i - 1)
         + (IF o[i - 1].op = "read" /\ o[i - 1].ret > 0 THEN o[i - 1].ret ELSE 0)

\* C14: a chunk of n bytes read for a logic channel is emitted as one logic
\* packet of length n and unit size 1 whose bytes are the n bytes the transport
\* held next, in their order.
C14_LogicPassThrough ==
    [][Channel(devc).type = "SR_CHANNEL_LOGIC" =>
       \A i \in DataReads(ops') : ops'[i].ret >= 0 =>
              /\ Len(Emitted) > Len(out)
              /\ \E p \in {Emitted[Len(out) + 1]} :
                    /\ p.type = "SR_DF_LOGIC"
                    /\ p.len = ops'[i].ret
                    /\ p.unitsize = 1
                    /\ Avail(p.data) = ops'[i].ret
                    /\ p.data = ops'[i].buf
                    /\ p.data = Take(Drop(wire, ReadBefore(ops', i)), ops'[i].ret)
      ]_vars

\* A logic packet of two different bytes is in the frame just closed.
C14_LogicChunkEmitted ==
    /\ closed # NoFrame
    /\ \E i \in 1..Len(closed.out) :
        /\ closed.out[i].type = "SR_DF_LOGIC"
        /\ closed.out[i].len = 2
        /\ Bytes(closed.out[i].data) = <<200, 7>>

---------------------------------------------------------------------------
\* v / inc rounded to the nearest integer, halves away from zero.
RoundDiv(v, inc) ==
    LET a == IF inc < 0 THEN -v ELSE v
        c == IF inc < 0 THEN -inc ELSE inc
    IN  IF a >= 0 THEN (2 * a + c) \div (2 * c) ELSE -((c - 2 * a) \div (2 * c))

---------------------------------------------------------------------------
\* The invocation that leads to the next state ended the current channel:
\* it moved the cursor to the next channel or closed the frame normally.
ChannelEnded ==
    \/ devc'.channel_entry = devc.channel_entry + 1
    \/ devc'.num_frames = devc.num_frames + 1

\* The byte count of the channel at the end of the invocation that leads to
\* the next state, before a channel start or a frame close resets it.
CountAtEnd ==
    IF ChannelEnded
    THEN devc.num_channel_bytes
         + (IF \E i \in DataReads(ops') : ops'[i].ret > 0
            THEN (CHOOSE r \in {ops'[i].ret : i \in DataReads(ops')} : TRUE)
            ELSE 0)
    ELSE devc'.num_channel_bytes

\* C16: the cursor moves to the next channel, or the frame closes, only in an
\* invocation at whose end the channel's byte count equals
\* num_channel_bytes_total as queried at the channel's start, and the byte
\* count never exceeds that total.
C16_CompleteAtTotal ==
    [][/\ ChannelEnded => CountAtEnd = devc.num_channel_bytes_total
       /\ CountAtEnd <= devc.num_channel_bytes_total
       /\ devc'.num_channel_bytes <= devc'.num_channel_bytes_total]_vars

---------------------------------------------------------------------------
\* The invocation that leads to the next state started a channel and every
\* step of the start succeeded.
ChannelStarted ==
    \E i \in SendOps(ops') : ops'[i].what = "read_begin" /\ ops'[i].ret = SR_OK

\* The invocation that leads to the next state read the last payload byte of
\* the block, and so went on to the block's line feed.
BlockCompleted == \E j \in ReadOps(ops') : ops'[j].what = "linefeed"

\* C17: right after a successful channel start (the first channel of a frame
\* or the next channel) num_header_bytes, num_block_bytes, num_block_read and
\* num_channel_bytes are all zero, and the progress of a block is otherwise
\* reset only when the block completes.
C17_CountersZeroAtChannelStart ==
    [][/\ ChannelStarted =>
            /\ devc'.num_header_bytes = 0
            /\ devc'.num_block_bytes = 0
            /\ devc'.num_block_read = 0
            /\ devc'.num_channel_bytes = 0
       /\ (~ChannelStarted /\ devc.num_block_read > 0 /\ devc'.num_block_read = 0) =>
            BlockCompleted
       /\ (~ChannelStarted /\ devc.num_block_bytes > 0 /\ devc'.num_block_bytes = 0) =>
            BlockCompleted]_vars

---------------------------------------------------------------------------
\* The commands of the one-time setup and the calibration queries.
SetupCommands == {":WAV:FORM BYTE", ":WAV:POIN:MODE NORM", ":WAV:UNS ON"}

CalibrationQueries == {":WAV:YINC?", ":WAV:YOR?", ":WAV:YREF?"}

\* What the invocation that leads to the next state sent or tried to send.
SentNow == {ops'[i].what : i \in SendOps(ops')}

\* C18: a channel start that runs with num_frames >= 1 sends no format,
\* points mode or unsigned command and no calibration query; vert_inc,
\* vert_origin and vert_reference of every channel are changed by nothing
\* once num_frames >= 1; and the start of a logic channel makes no
\* calibration query in any frame.
C18_SetupOnFirstFrameOnly ==
    [][/\ (devc'.num_frames >= 1 /\ ":WAV:SOUR" \in SentNow) =>
              SentNow \cap (SetupCommands \cup CalibrationQueries) = {}
       /\ devc.num_frames >= 1 =>
              /\ devc'.vert_inc = devc.vert_inc
              /\ devc'.vert_origin = devc.vert_origin
              /\ devc'.vert_reference = devc.vert_reference
       /\ (\E i \in SendOps(ops') : ops'[i].what = ":WAV:SOUR" /\ ops'[i].req > 100) =>
              SentNow \cap CalibrationQueries = {}]_vars

\* Both channels were started in the second frame: the logic channel just
\* now, the analog channel before it.
C18_SecondFrameChannelsStarted ==
    /\ devc.num_frames = 1
    /\ xfer = <<1, 2>>
    /\ \E i \in SendOps(ops) : ops[i].what = ":WAV:SOUR" /\ ops[i].req = 102
    /\ \E i \in SendOps(ops) : ops[i].what = "read_begin" /\ ops[i].ret = SR_OK

---------------------------------------------------------------------------
\* The capture command went out in the invocation or the acquisition start
\* that leads to the next state.
TriggerSent ==
    \E i \in SendOps(ops') : ops'[i].what = ":DIGitize;*OPC?" /\ ops'[i].ret = SR_OK

\* An operation failed, or a header was found malformed, in the invocation
\* that leads to the next state.
FatalError == AbortCause(ops') \/ FailedStep(ops')

\* C19: the state changes only from idle to digitizing (capture start), from
\* digitizing to reading (successful channel start), from reading to
\* digitizing (frame close and capture start) and from any state to idle
\* (fatal error); while a block is in progress or the next channel is
\* started the state stays reading.  Reading is entered only with a
\* successful channel start, digitizing only with the capture command sent.
C19_StateTransitions ==
    [][/\ <<devc.state, devc'.state>> \in
              { <<"STATE_IDLE", "STATE_DIGITIZING">>,
                <<"STATE_DIGITIZING", "STATE_READING_DATA">>,
                <<"STATE_READING_DATA", "STATE_READING_DATA">>,
                <<"STATE_READING_DATA", "STATE_DIGITIZING">>,
                <<"STATE_IDLE", "STATE_IDLE">>,
                <<"STATE_DIGITIZING", "STATE_DIGITIZING">>,
                <<"STATE_DIGITIZING", "STATE_IDLE">>,
                <<"STATE_READING_DATA", "STATE_IDLE">> }
       /\ (devc.state # "STATE_READING_DATA" /\ devc'.state = "STATE_READING_DATA") =>
              ChannelStarted
       /\ (devc.state # "STATE_DIGITIZING" /\ devc'.state = "STATE_DIGITIZING") =>
              TriggerSent
       /\ (devc.state = "STATE_READING_DATA" /\ devc'.state = "STATE_DIGITIZING") =>
              /\ closed' # NoFrame
              /\ ended' = ended + 1
              /\ ~HasNext(devc)
       /\ (devc.state # "STATE_IDLE" /\ devc'.state = "STATE_IDLE") => FatalError
       /\ (devc.state = "STATE_READING_DATA" /\ devc'.state = "STATE_READING_DATA"
           /\ devc'.channel_entry # devc.channel_entry) =>
              devc'.channel_entry = devc.channel_entry + 1]_vars

\* The second frame is being read: the state went from idle to digitizing, to
\* reading, back to digitizing at the frame close and to reading again.
C19_ReadingSecondFrame ==
    /\ devc.state = "STATE_READING_DATA"
    /\ devc.num_frames = 1
    /\ begun = 2
    /\ ended = 1

---------------------------------------------------------------------------
\* The invocation that leads to the next state read data of the last enabled
\* channel and the channel's byte count reached its total.
LastChannelCompleted ==
    /\ ~HasNext(devc)
    /\ \E i \in DataReads(ops') :
          /\ ops'[i].ret >= 0
          /\ devc.num_channel_bytes + ops'[i].ret >= devc.num_channel_bytes_total

\* The frame end packets among the packets p.
FrameEnds(p) == {i \in 1..Len(p) : p[i].type = "SR_DF_FRAME_END"}

\* C20: the invocation in which the last enabled channel completes emits one
\* frame end, puts the cursor back on the first enabled channel and adds one
\* to num_frames; num_frames changes in no other step (not at a channel
\* advance, not at an abort) and never decreases, and the cursor is always
\* on a channel of the enabled list.
C20_FrameCounter ==
    [][/\ LastChannelCompleted =>
              /\ devc'.num_frames = devc.num_frames + 1
              /\ devc'.channel_entry = 1
              /\ ended' = ended + 1
              /\ closed' # NoFrame
              /\ FrameEnds(closed'.out) = {Len(closed'.out)}
              /\ Len(closed'.out) = Len(out) + 2
       /\ ~LastChannelCompleted => devc'.num_frames = devc.num_frames
       /\ devc'.num_frames >= devc.num_frames
       /\ devc'.channel_entry = devc.channel_entry + 1 =>
              devc'.num_frames = devc.num_frames
       /\ AbortCause(ops') => devc'.num_frames = devc.num_frames /\ ended' = ended + 1
       /\ devc.channel_entry \in 1..Len(devc.enabled_channels)
       /\ devc'.channel_entry \in 1..Len(devc'.enabled_channels)]_vars

\* The first frame was closed by the last invocation, with both channels
\* read.
C20_FirstFrameClosed ==
    /\ devc.num_frames = 1
    /\ devc.channel_entry = 1
    /\ closed # NoFrame
    /\ closed.xfer = <<1, 2>>
    /\ ended = 1

---------------------------------------------------------------------------
\* The current channel is the first and the handler is reading its data.
ReadingFirstChannel ==
    /\ devc.state = "STATE_READING_DATA"
    /\ devc.channel_entry = 1
    /\ devc.num_frames = 0

\* The first channel completed: the cursor moved on or the frame closed.
FirstChannelCompleted == devc.channel_entry > 1 \/ devc.num_frames > 0

\* The run reached the number of packets or frames it is cut at.
CutShort == Len(out) >= MaxOut \/ devc.num_frames >= MaxFrames

\* C21: with the handler invoked again and again, a transport that never
\* fails and in the end delivers every byte, and well-formed blocks (digit
\* count 1..9, any length from 0 on) whose lengths sum to the channel's byte
\* count, a channel being read eventually completes: the cursor moves to the
\* next channel or the frame closes.
C21_ChannelCompletes == ReadingFirstChannel ~> (FirstChannelCompleted \/ CutShort)

====
